---- MODULE Spec2Model ----
(***************************************************************************)
(* Model of performance_portal.py: a Streamlit page that is re-run from    *)
(* top to bottom on every render pass.  Two helper functions are wrapped   *)
(* in st.cache_data (time-to-live caches keyed by the function alone), a   *)
(* "Refresh Data" button clears every cache, and the layout below renders  *)
(* KPIs, a chart and two tables from the values the helpers return.        *)
(*                                                                         *)
(* Money is held in integer cents, ratios in 1/10000 (basis points) and    *)
(* time in seconds.  Text is a sequence of one-character strings, so that  *)
(* formatting is computed and can be parsed back.                          *)
(***************************************************************************)
EXTENDS Integers, Sequences, FiniteSets, TLC

VARIABLES
    market,        \* index into Markets: what the brokerage would answer now
    total_cash,    \* TOTAL_PORTFOLIO_CASH, read from the secrets at start-up
    account_cache, \* st.cache_data entry of get_account_data: <<>> or <<entry>>
    history_cache, \* st.cache_data entry of get_portfolio_history
    page           \* what the last render pass did and put on the page

vars == <<market, total_cash, account_cache, history_cache, page>>

\* ------------------------------------------------------------------ bounds

\* Number of closed orders held by the brokerage in the large-book markets.
BigBook == 101

\* Seconds that may pass between two render passes.
ShortWait == 290
LongWait == 3400

\* ------------------------------------------------------ program constants

\* @st.cache_data(ttl=300)
account_ttl == 300

\* Variant: the history cached with the account's ttl.
history_ttl_as_account == 5 * 60

\* @st.cache_data(ttl=3600)
history_ttl == 3600

\* Variant: a larger limit.
orders_limit_thousand == 10 * 100

\* api.list_orders(status='closed', limit=100, direction='desc')
orders_limit == 100

\* ------------------------------------------------------------ text helpers

Digits == <<"0", "1", "2", "3", "4", "5", "6", "7", "8", "9">>

Abs(n) == IF n < 0 THEN -n ELSE n

Min(a, b) == IF a < b THEN a ELSE b

RECURSIVE NatChars(_)
NatChars(n) ==
    IF n < 10 THEN <<Digits[n + 1]>>
    ELSE NatChars(n \div 10) \o <<Digits[(n % 10) + 1]>>

Pad2(n) == <<Digits[(n \div 10) + 1], Digits[(n % 10) + 1]>>

Pad3(n) == <<Digits[(n \div 100) + 1]>> \o Pad2(n % 100)

\* The "," option of Python's format mini-language: groups of three digits.
RECURSIVE Grouped(_)
Grouped(n) ==
    IF n < 1000 THEN NatChars(n)
    ELSE Grouped(n \div 1000) \o <<",">> \o Pad3(n % 1000)

\* f"${x:,.2f}" for x = cents / 100; a negative amount prints as "$-1.00".
FormatMoney(cents) ==
    <<"$">> \o (IF cents < 0 THEN <<"-">> ELSE <<>>)
            \o Grouped(Abs(cents) \div 100) \o <<".">> \o Pad2(Abs(cents) % 100)

\* f"{float(r) * 100:.2f}%" for r = bps / 10000.
FormatPercent(bps) ==
    (IF bps < 0 THEN <<"-">> ELSE <<>>)
        \o NatChars(Abs(bps) \div 100) \o <<".">> \o Pad2(Abs(bps) % 100) \o <<"%">>

\* strftime('%Y-%m-%d %H:%M:%S') of a time t seconds into 2024-01-01.
FormatTime(t) ==
    <<"2", "0", "2", "4", "-", "0", "1", "-", "0", "1", " ">>
        \o Pad2(t \div 3600) \o <<":">> \o Pad2((t \div 60) % 60)
        \o <<":">> \o Pad2(t % 60)

\* str.title() on the enum values the brokerage sends.
Title(s) ==
    CASE s = "long" -> "Long"
      [] s = "short" -> "Short"
      [] s = "buy" -> "Buy"
      [] s = "sell" -> "Sell"
      [] s = "market" -> "Market"
      [] s = "limit" -> "Limit"
      [] s = "filled" -> "Filled"
      [] s = "canceled" -> "Canceled"

\* ------------------------------------------------------ brokerage answers

ExampleAccount ==
    [portfolio_value |-> 10532050, cash |-> 2500000,
     equity |-> 10532050, last_equity |-> 10480000]

LosingAccount ==
    [portfolio_value |-> 9990000, cash |-> 123456789,
     equity |-> 9876543, last_equity |-> 9876600]

FlatAccount ==
    [portfolio_value |-> 5, cash |-> 0, equity |-> 99, last_equity |-> 99]

Position(sym, q, sd, mv, cb, pl, plpc) ==
    [symbol |-> sym, qty |-> q, side |-> sd, market_value |-> mv,
     cost_basis |-> cb, unrealized_pl |-> pl, unrealized_plpc |-> plpc]

LongPosition == Position("AAPL", 10, "long", 190000, 180400, 9600, 532)

ShortPosition == Position("TSLA", -3, "short", -75000, -70000, -5000, -714)

\* The i-th closed order of a book of n, newest submission first (i = 1).
\* Orders are submitted a minute apart and fill one second later, except:
\*  "late"     the second-newest order (a resting limit order) fills after
\*             the newest one does;
\*  "canceled" the newest order was canceled: it has no fill price or time.
\* filled_avg_price and filled_at are <<>> for None, <<v>> for a value.
ClosedOrder(n, kind, i) ==
    LET sub == 1000 + (n - i) * 60
        canc == kind = "canceled" /\ i = 1
        late == kind = "late" /\ i = 2
    IN  [symbol |-> IF i % 2 = 0 THEN "AAPL" ELSE "TSLA",
         filled_qty |-> IF canc THEN 0 ELSE i,
         side |-> IF i % 2 = 0 THEN "buy" ELSE "sell",
         order_type |-> IF late THEN "limit" ELSE "market",
         filled_avg_price |-> IF canc THEN <<>> ELSE <<123400 + i>>,
         status |-> IF canc THEN "canceled" ELSE "filled",
         submitted_at |-> sub,
         filled_at |-> IF canc THEN <<>>
                       ELSE IF late THEN <<sub + 90>>
                       ELSE <<sub + 1>>]

\* The brokerage's whole closed-order book, in the order direction='desc'
\* lists it: by submission time, newest first.
OrderBook(n, kind) == [i \in 1..n |-> ClosedOrder(n, kind, i)]

HistoryPoint(t, e) ==
    [timestamp |-> t, equity |-> e, profit_loss |-> e - 10000000,
     profit_loss_pct |-> (e - 10000000) \div 1000]

MonthHistory == <<HistoryPoint(0, 10000000), HistoryPoint(86400, 10480000),
                  HistoryPoint(172800, 10532050)>>

Market(a, ps, n, kind, h) ==
    [account |-> a, positions |-> ps, book |-> OrderBook(n, kind), history |-> h]

\* The situations the brokerage account can be in.
Markets ==
    << Market(ExampleAccount, <<LongPosition, ShortPosition>>, 3, "late", MonthHistory),
       Market(LosingAccount, <<>>, 0, "plain", <<>>),
       Market(FlatAccount, <<LongPosition>>, 2, "canceled", MonthHistory),
       Market(FlatAccount, <<LongPosition>>, BigBook, "plain", MonthHistory),
       Market(ExampleAccount, <<ShortPosition>>, BigBook + 1, "late", MonthHistory),
       Market(LosingAccount, <<LongPosition>>, BigBook, "canceled", MonthHistory) >>

\* The markets with a short order book, and all of them.
SmallMarkets == {1, 2, 3}

AllMarkets == 1..Len(Markets)

\* ------------------------------------------------- Market Data Client calls

\* How one call of the client ends: with a result, with an APIError, or with
\* any other exception (requests' ConnectionError, a JSON decoding error, a
\* ValueError from pandas on a malformed answer, ...).
Outcomes == {"ok", "APIError", "Other"}

\* f says how each of the four calls would end if it were made.  The three
\* calls of get_account_data stop at the first failure, so the outcome of a
\* call after it is never seen and is fixed to "ok".
Faults ==
    {f \in [get_account : Outcomes, list_positions : Outcomes,
            list_orders : Outcomes, get_portfolio_history : Outcomes] :
        /\ f.get_account # "ok" => f.list_positions = "ok"
        /\ f.get_account # "ok" \/ f.list_positions # "ok" => f.list_orders = "ok"}

Call(name, arguments, out) == [op |-> name, args |-> arguments, outcome |-> out]

\* What list_orders(status='closed', limit=n, direction='desc') answers: the
\* first n orders of the book.
ListOrders(book, n) == SubSeq(book, 1, Min(Len(book), n))

\* ---------------------------------------------------------------- elements

Element(k, t, v, r) == [kind |-> k, text |-> t, value |-> v, rows |-> r]

Error(t) == Element("error", t, <<>>, <<>>)

Warning(t) == Element("warning", t, <<>>, <<>>)

Info(t) == Element("info", t, <<>>, <<>>)

Header(t) == Element("header", t, <<>>, <<>>)

Metric(t, v) == Element("metric", t, v, <<>>)

Dataframe(t, r) == Element("dataframe", t, <<>>, r)

\* The box Streamlit draws for an exception the script did not catch.
Exception == Element("exception", "Traceback", <<>>, <<>>)

\* ------------------------------------------------------- get_account_data

NoData == << <<>>, <<>>, <<>> >>

\* Variant: the handler keeps the account it had obtained.
account_on_api_error_partial(account) == <<account, <<>>, <<>>>>

\* The handler's substitute, whatever had been obtained: return None, [], []
account_on_api_error(account) == NoData

\* The body of get_account_data, run on a cache miss.  The three calls are
\* made in order inside one try block; the first failure ends them.
get_account_data_body(m, f) ==
    LET c1 == <<Call("get_account", <<>>, f.get_account)>>
        c2 == IF f.get_account = "ok"
              THEN <<Call("list_positions", <<>>, f.list_positions)>> ELSE <<>>
        c3 == IF f.get_account = "ok" /\ f.list_positions = "ok"
              THEN <<Call("list_orders", <<"closed", orders_limit, "desc">>,
                          f.list_orders)>>
              ELSE <<>>
        all == c1 \o c2 \o c3
        last == all[Len(all)].outcome
        got == IF f.get_account = "ok" THEN <<m.account>> ELSE <<>>
    IN  [calls |-> all,
         returned |-> last # "Other",
         value |-> IF last = "ok"
                   THEN <<<<m.account>>, m.positions, ListOrders(m.book, orders_limit)>>
                   ELSE account_on_api_error(got),
         msgs |-> IF last = "APIError"
                  THEN <<Error("Error fetching data from Alpaca")>> ELSE <<>>]

\* -------------------------------------------------- get_portfolio_history

\* The body of get_portfolio_history: the answer as a data frame, or an empty
\* data frame after an APIError.
get_portfolio_history_body(m, f) ==
    LET out == f.get_portfolio_history
    IN  [calls |-> <<Call("get_portfolio_history", <<"1M", "1D">>, out)>>,
         returned |-> out # "Other",
         value |-> IF out = "ok" THEN m.history ELSE <<>>,
         msgs |-> IF out = "APIError"
                  THEN <<Error("Error fetching portfolio history")>> ELSE <<>>]

\* ------------------------------------------------------------ st.cache_data

\* Variant: an entry that never expires.
CacheHit_never_expires(cache, ttl) == cache # <<>>

\* An entry is served while it is younger than the function's ttl.
CacheHit(cache, ttl) == cache # <<>> /\ cache[1].age < ttl

\* Variant: a result that came with an error message is not stored.
cache_store_successes_only(value, msgs) ==
    IF msgs # <<>> THEN <<>> ELSE <<[value |-> value, msgs |-> msgs, age |-> 0]>>

\* What a returning call leaves in the cache: the value and the elements the
\* function drew, which are replayed on every hit.
cache_store(value, msgs) == <<[value |-> value, msgs |-> msgs, age |-> 0]>>

\* A call of a function wrapped in st.cache_data: a hit returns the stored
\* value and replays the stored elements without running the body; a miss
\* runs the body and stores what it returns.  A body that raises stores
\* nothing.
cached_call(cache, ttl, body) ==
    IF CacheHit(cache, ttl)
    THEN [calls |-> <<>>, returned |-> TRUE, value |-> cache[1].value,
          msgs |-> cache[1].msgs, cache |-> cache]
    ELSE [calls |-> body.calls, returned |-> body.returned, value |-> body.value,
          msgs |-> body.msgs,
          cache |-> IF body.returned THEN cache_store(body.value, body.msgs)
                    ELSE <<>>]

\* Variant: a clear that clears nothing.
cache_data_clear_noop(cache) == cache

\* st.cache_data.clear()
cache_data_clear(cache) == <<>>

\* ------------------------------------------------------------------ layout

\* Variant: the day's change taken from portfolio_value.
today_pl_from_portfolio_value(account) == account.portfolio_value - account.last_equity

\* float(account.equity) - float(account.last_equity).  Amounts are whole
\* cents well below 2^53, so the float difference rounds to the exact cent.
today_pl(account) == account.equity - account.last_equity

\* float(account.equity) - TOTAL_PORTFOLIO_CASH
total_pl(account, cash) == account.equity - cash

\* The four st.metric calls under "Key Performance Indicators".
key_metrics(account, cash) ==
    << Header("Key Performance Indicators"),
       Metric("Portfolio Value", FormatMoney(account.portfolio_value)),
       Metric("Cash Balance", FormatMoney(account.cash)),
       Metric("Today's P/L", FormatMoney(today_pl(account))),
       Metric("Total P/L", FormatMoney(total_pl(account, cash))) >>

\* The chart, or the warning shown for an empty data frame.
history_chart(history_df) ==
    << Header("Portfolio Value Over Time (30 Days)"),
       IF history_df # <<>>
       THEN Element("chart", "Portfolio Equity Over Time", <<>>,
                    [i \in 1..Len(history_df) |->
                        [timestamp |-> history_df[i].timestamp,
                         equity |-> history_df[i].equity]])
       ELSE Warning("Could not load portfolio history chart.") >>

position_row(p) ==
    [Symbol |-> p.symbol,
     Qty |-> p.qty,
     Side |-> Title(p.side),
     MarketValue |-> FormatMoney(p.market_value),
     CostBasis |-> FormatMoney(p.cost_basis),
     UnrealizedPL |-> FormatMoney(p.unrealized_pl),
     UnrealizedPLPct |-> FormatPercent(p.unrealized_plpc)]

positions_table(positions) ==
    << Header("Current Open Positions"),
       IF positions # <<>>
       THEN Dataframe("positions",
                      [i \in 1..Len(positions) |-> position_row(positions[i])])
       ELSE Info("No open positions.") >>

\* float(None) raises TypeError and NaT.strftime raises ValueError: a row
\* can be built only for an order that has a fill price and a fill time.
order_row_raises(o) == o.filled_avg_price = <<>> \/ o.filled_at = <<>>

order_row(o) ==
    [Symbol |-> o.symbol,
     Qty |-> o.filled_qty,
     Side |-> Title(o.side),
     Type |-> Title(o.order_type),
     AvgFillPrice |-> FormatMoney(o.filled_avg_price[1]),
     Status |-> Title(o.status),
     FilledAt |-> FormatTime(o.filled_at[1])]

\* The orders section: [elements, crashed].  The rows are built in a loop
\* before st.dataframe is called, so one failing row leaves only the header.
orders_table(orders) ==
    LET header == <<Header("Recent Closed Orders (Last 100)")>>
    IN  IF orders = <<>>
        THEN [elements |-> header \o <<Info("No recent closed orders found.")>>,
              crashed |-> FALSE]
        ELSE IF \E i \in 1..Len(orders) : order_row_raises(orders[i])
        THEN [elements |-> header \o <<Exception>>, crashed |-> TRUE]
        ELSE [elements |-> header \o
                  <<Dataframe("orders",
                              [i \in 1..Len(orders) |-> order_row(orders[i])])>>,
              crashed |-> FALSE]

\* Variant: the else branch also draws an empty positions section.
no_account_with_sections ==
    <<Error("Could not connect to Alpaca to fetch account data."),
      Header("Current Open Positions"), Info("No open positions.")>>

\* The else branch of "if account:".
no_account == <<Error("Could not connect to Alpaca to fetch account data.")>>

\* Everything from "if account:" down: [elements, crashed].
layout(account, positions, orders, history_df, cash) ==
    IF account # <<>>
    THEN LET ot == orders_table(orders)
         IN  [elements |-> key_metrics(account[1], cash) \o history_chart(history_df)
                            \o positions_table(positions) \o ot.elements,
              crashed |-> ot.crashed]
    ELSE [elements |-> no_account, crashed |-> FALSE]

\* ------------------------------------------------------------ render pass

Title_element == Element("title", "Alpaca Trading Performance Overview", <<>>, <<>>)

BlankPage ==
    [clicked |-> FALSE, calls |-> <<>>, logs |-> <<>>, crashed |-> FALSE,
     elements |-> <<>>, data |-> <<>>, history_df |-> <<>>]

\* One run of the script: start-up logging, the button, the two cached
\* fetches, the layout.  click says whether the run was started by the
\* "Refresh Data" button; f says how each client call would end.
RenderPass(click, f) ==
    LET m == Markets[market]
        ac0 == IF click THEN cache_data_clear(account_cache) ELSE account_cache
        hc0 == IF click THEN cache_data_clear(history_cache) ELSE history_cache
        a == cached_call(ac0, account_ttl, get_account_data_body(m, f))
        h == cached_call(hc0, history_ttl, get_portfolio_history_body(m, f))
        lay == layout(a.value[1], a.value[2], a.value[3], h.value, total_cash)
        log == <<"Alpaca API connection successful.">>
    IN  /\ account_cache' = a.cache
        /\ UNCHANGED <<market, total_cash>>
        /\ IF ~a.returned
           THEN /\ history_cache' = hc0
                /\ page' = [clicked |-> click, calls |-> a.calls, logs |-> log,
                            crashed |-> TRUE,
                            elements |-> <<Title_element, Exception>>,
                            data |-> <<>>, history_df |-> <<>>]
           ELSE IF ~h.returned
           THEN /\ history_cache' = h.cache
                /\ page' = [clicked |-> click, calls |-> a.calls \o h.calls,
                            logs |-> log, crashed |-> TRUE,
                            elements |-> <<Title_element>> \o a.msgs \o <<Exception>>,
                            data |-> <<a.value>>, history_df |-> <<>>]
           ELSE /\ history_cache' = h.cache
                /\ page' = [clicked |-> click, calls |-> a.calls \o h.calls,
                            logs |-> log, crashed |-> lay.crashed,
                            elements |-> <<Title_element>> \o a.msgs \o h.msgs
                                           \o lay.elements,
                            data |-> <<a.value>>, history_df |-> <<h.value>>]

\* A render pass, whoever starts it and whatever the client answers.
Pass == \E click \in BOOLEAN, f \in Faults : RenderPass(click, f)

\* Time passes between passes: both entries age.  An age is counted up to
\* the entry's ttl, beyond which the entry is expired whatever its age.
Aged(cache, d, ttl) ==
    IF cache = <<>> THEN <<>>
    ELSE <<[cache[1] EXCEPT !.age = Min(cache[1].age + d, ttl)]>>

Tick(d) ==
    /\ account_cache' = Aged(account_cache, d, account_ttl)
    /\ history_cache' = Aged(history_cache, d, history_ttl)
    /\ UNCHANGED <<market, total_cash, page>>

\* The brokerage account changes: trades, fills, price moves.
MarketMoves(ms) ==
    /\ market' \in ms \ {market}
    /\ UNCHANGED <<total_cash, account_cache, history_cache, page>>

\* The configured baseline: float(st.secrets["account"]["total_portfolio_cash"])
TotalCashChoices == {10000000, 2500050}

Start(ms, cashes) ==
    /\ market \in ms
    /\ total_cash \in cashes
    /\ account_cache = <<>>
    /\ history_cache = <<>>
    /\ page = BlankPage

\* The dashboard over time: passes, waits and market moves, over the markets
\* with a short order book.
Init == Start(SmallMarkets, {10000000})

Next ==
    \/ Pass
    \/ \E d \in {ShortWait, LongWait} : Tick(d)
    \/ MarketMoves(SmallMarkets)

Spec == Init /\ [][Next]_vars

\* The reporting pipeline on every market and baseline: passes and market
\* moves with no time passing in between.
InitReport == Start(AllMarkets, TotalCashChoices)

NextReport ==
    \/ Pass
    \/ MarketMoves(AllMarkets)

SpecReport == InitReport /\ [][NextReport]_vars

\* ------------------------------------------------------ reading the page

AccountOps == {"get_account", "list_positions", "list_orders"}

IsAccountCall(c) == c.op \in AccountOps

IsHistoryCall(c) == c.op = "get_portfolio_history"

\* The remote calls a pass made for each of the two operations.
AccountCalls(pg) == SelectSeq(pg.calls, IsAccountCall)

HistoryCalls(pg) == SelectSeq(pg.calls, IsHistoryCall)

Outcome(calls) == {calls[i].outcome : i \in 1..Len(calls)}

Range(q) == {q[i] : i \in 1..Len(q)}

OfKind(pg, kinds) == {e \in Range(pg.elements) : e.kind \in kinds}

\* The elements of the KPI, chart, positions and orders sections.
SectionKinds == {"header", "metric", "chart", "warning", "info", "dataframe"}

ErrorCount(pg) == Len(SelectSeq(pg.elements, LAMBDA e : e.kind = "error"))

TopLevelError == Error("Could not connect to Alpaca to fetch account data.")

FetchErrors == {Error("Error fetching data from Alpaca"),
                Error("Error fetching portfolio history")}

\* The pass got as far as get_account_data returning / as the layout.
AccountReturned(pg) == pg.data # <<>>

ReachedLayout(pg) == pg.data # <<>> /\ pg.history_df # <<>>

AccountAbsent(pg) == pg.data # <<>> /\ pg.data[1][1] = <<>>

AccountPresent(pg) == pg.data # <<>> /\ pg.data[1][1] # <<>>

MetricValue(pg, label) ==
    (CHOOSE e \in OfKind(pg, {"metric"}) : e.text = label).value

HasTable(pg, name) == \E e \in OfKind(pg, {"dataframe"}) : e.text = name

TableRows(pg, name) ==
    (CHOOSE e \in OfKind(pg, {"dataframe"}) : e.text = name).rows

\* Reading formatted text back.
IsDigit(ch) == ch \in Range(Digits)

DigitValue(ch) == CHOOSE d \in 0..9 : Digits[d + 1] = ch

RECURSIVE DigitsValue(_)
DigitsValue(q) ==
    IF q = <<>> THEN 0
    ELSE 10 * DigitsValue(SubSeq(q, 1, Len(q) - 1)) + DigitValue(q[Len(q)])

\* The amount in cents that a "$1,234.56" text states.
ParseMoney(q) ==
    LET v == DigitsValue(SelectSeq(q, IsDigit))
    IN  IF "-" \in Range(q) THEN -v ELSE v

\* Seconds into the day that a "YYYY-MM-DD HH:MM:SS" text states.
ParseTime(q) ==
    DigitsValue(SubSeq(q, 12, 13)) * 3600 + DigitsValue(SubSeq(q, 15, 16)) * 60
        + DigitsValue(SubSeq(q, 18, 19))

FiveMinutes == 5 * 60

OneHour == 60 * 60

\* What three successful calls answer on market m.
Triple(m) == <<<<m.account>>, m.positions, ListOrders(m.book, 100)>>

\* ------------------------------------------------------------------ claims

Fresh(cache, window) == cache # <<>> /\ cache[1].age < window

Stale(cache, window) == cache # <<>> /\ cache[1].age >= window

\* C1: a call of get_account_data made less than 5 minutes after the fetch
\* that filled the cache, with no refresh in between, makes no remote call
\* and returns the cached data unchanged; a call made once 5 minutes have
\* passed since that fetch, or in a pass started by the refresh button,
\* makes a new remote call.
C1_AccountCacheWindow ==
    [][Pass =>
        /\ (Fresh(account_cache, FiveMinutes) /\ ~page'.clicked) =>
              /\ AccountCalls(page') = <<>>
              /\ page'.data = <<account_cache[1].value>>
              /\ account_cache' = account_cache
        /\ (Stale(account_cache, FiveMinutes) \/ page'.clicked) =>
              /\ AccountCalls(page') # <<>>
              /\ AccountCalls(page')[1].op = "get_account"]_vars

\* A pass that was served account data from a cache entry a wait old, while
\* it did fetch the history.
C1_Witness ==
    /\ ~page.clicked
    /\ AccountReturned(page)
    /\ AccountCalls(page) = <<>>
    /\ HistoryCalls(page) # <<>>
    /\ Fresh(account_cache, FiveMinutes)
    /\ account_cache[1].age > 0

\* C2: a pass started by the refresh button clears both caches before it
\* reads: whatever age the entries had, every read of that pass is a remote
\* fetch, the entries left behind are the ones just fetched, and the data
\* the pass shows is what the brokerage answers now.
C2_RefreshRefetches ==
    [][(Pass /\ page'.clicked) =>
        /\ AccountCalls(page') # <<>>
        /\ AccountReturned(page') => HistoryCalls(page') # <<>>
        /\ account_cache' # <<>> => account_cache'[1].age = 0
        /\ history_cache' # <<>> => history_cache'[1].age = 0
        /\ (AccountReturned(page') /\ Outcome(AccountCalls(page')) = {"ok"}) =>
              page'.data = <<Triple(Markets[market])>>
        /\ (ReachedLayout(page') /\ Outcome(HistoryCalls(page')) = {"ok"}) =>
              page'.history_df = <<Markets[market].history>>]_vars

\* A refresh pass that re-fetched both and shows the market's data, which
\* differs from what an earlier pass had shown.
C2_Witness ==
    /\ page.clicked
    /\ Outcome(page.calls) = {"ok"}
    /\ Len(page.calls) = 4
    /\ page.data = <<Triple(Markets[market])>>
    /\ account_cache # <<>> /\ account_cache[1].age = 0
    /\ history_cache # <<>> /\ history_cache[1].age = 0

\* C3: the two entries expire on their own: with no refresh, the account
\* entry is served for 5 minutes and the history entry for 1 hour, so a pass
\* makes no history call while the history entry is younger than 1 hour,
\* even when it re-fetches the account, and no account call while the
\* account entry is younger than 5 minutes, even when it re-fetches the
\* history; each is fetched again once its own time has passed.
C3_IndependentExpiry ==
    [][(Pass /\ ~page'.clicked) =>
        /\ Fresh(history_cache, OneHour) => HistoryCalls(page') = <<>>
        /\ Fresh(account_cache, FiveMinutes) => AccountCalls(page') = <<>>
        /\ (Stale(history_cache, OneHour) /\ AccountReturned(page')) =>
              HistoryCalls(page') # <<>>
        /\ Stale(account_cache, FiveMinutes) => AccountCalls(page') # <<>>]_vars

\* A pass that fetched the account again and was served the history from an
\* entry older than 5 minutes.
C3_Witness ==
    /\ ~page.clicked
    /\ AccountCalls(page) # <<>>
    /\ ReachedLayout(page)
    /\ HistoryCalls(page) = <<>>
    /\ history_cache # <<>> /\ history_cache[1].age >= FiveMinutes
    /\ account_cache # <<>> /\ account_cache[1].age = 0

\* C4 as stated: in every pass that obtains no account snapshot, exactly one
\* error message is on the page and no section element is.
C4_SingleErrorOnly ==
    (page.logs # <<>> /\ ~AccountPresent(page)) =>
        /\ ErrorCount(page) = 1
        /\ OfKind(page, SectionKinds) = {}

\* C4, amended: in every pass whose get_account_data returns no account
\* (a failed fetch caught in this pass, or the failed result served from the
\* cache) and that reaches the layout, the layout draws the "Could not
\* connect" error exactly once, as the last element, and no section element;
\* the only other elements are the title and the fetch functions' own error
\* messages, one per failed fetch, drawn or replayed from the cache.
C4_GateOnAccount ==
    (AccountAbsent(page) /\ ReachedLayout(page)) =>
        /\ ~page.crashed
        /\ Len(SelectSeq(page.elements, LAMBDA e : e = TopLevelError)) = 1
        /\ page.elements[Len(page.elements)] = TopLevelError
        /\ OfKind(page, SectionKinds) = {}
        /\ Range(page.elements) \subseteq {Title_element, TopLevelError} \cup FetchErrors
        /\ Error("Error fetching data from Alpaca") \in Range(page.elements)
        /\ ErrorCount(page) = 2 + (IF Error("Error fetching portfolio history")
                                       \in Range(page.elements) THEN 1 ELSE 0)

\* A pass that was served the failed account result from the cache, with a
\* failed history as well: three error messages and nothing else.
C4_Witness ==
    /\ AccountAbsent(page)
    /\ ReachedLayout(page)
    /\ AccountCalls(page) = <<>>
    /\ ErrorCount(page) = 3

\* C5 as stated: whenever a client call of the pass fails, the failure is
\* logged, an error message is shown, an empty result is substituted and the
\* pass runs to its end.
C5_EveryFailureHandled ==
    (Outcome(page.calls) \ {"ok"} # {}) =>
        /\ ~page.crashed
        /\ Len(page.logs) > 1
        /\ OfKind(page, {"error"}) \cap FetchErrors # {}
        /\ ReachedLayout(page)

\* The entry holds the substitute that a caught failure returned.
HoldsFailure(cache) == cache # <<>> /\ cache[1].msgs # <<>>

\* C6 as stated: once a fetch has failed and its substituted empty result
\* is in the cache, later passes see that result and make no remote call for
\* that operation unless the pass was started by the refresh button.
C6_OnlyRefreshRefetches ==
    [][(Pass /\ ~page'.clicked) =>
        /\ HoldsFailure(account_cache) =>
              /\ AccountCalls(page') = <<>>
              /\ page'.data = <<NoData>>
        /\ (HoldsFailure(history_cache) /\ AccountReturned(page')) =>
              /\ HistoryCalls(page') = <<>>
              /\ page'.history_df = << <<>> >>]_vars

\* C6, amended: no call is made twice in a pass, and a fetch that failed
\* with an APIError leaves its substituted empty result in the cache, which
\* is what later passes see, with no remote call for that operation, until
\* the refresh button is used or the entry's time-to-live (5 minutes, 1
\* hour) has passed; either of the two leads to a new remote call.  A fetch
\* that failed with another exception left nothing in the cache, and the
\* next pass calls again.
C6_NoRetryWhileCached ==
    [][Pass =>
        /\ \A i, j \in 1..Len(page'.calls) : i # j => page'.calls[i].op # page'.calls[j].op
        /\ "APIError" \in Outcome(AccountCalls(page')) =>
              /\ HoldsFailure(account_cache') /\ account_cache'[1].value = NoData
              /\ page'.data = <<NoData>>
        /\ "APIError" \in Outcome(HistoryCalls(page')) =>
              /\ HoldsFailure(history_cache') /\ history_cache'[1].value = <<>>
              /\ page'.history_df = << <<>> >>
        /\ (HoldsFailure(account_cache) /\ Fresh(account_cache, FiveMinutes)
               /\ ~page'.clicked) =>
              /\ AccountCalls(page') = <<>>
              /\ page'.data = <<NoData>>
              /\ account_cache' = account_cache
        /\ (HoldsFailure(history_cache) /\ Fresh(history_cache, OneHour)
               /\ ~page'.clicked /\ AccountReturned(page')) =>
              /\ HistoryCalls(page') = <<>>
              /\ page'.history_df = << <<>> >>
              /\ history_cache' = history_cache
        /\ (HoldsFailure(account_cache)
               /\ (page'.clicked \/ Stale(account_cache, FiveMinutes))) =>
              AccountCalls(page') # <<>>
        /\ (HoldsFailure(history_cache) /\ AccountReturned(page')
               /\ (page'.clicked \/ Stale(history_cache, OneHour))) =>
              HistoryCalls(page') # <<>>
        /\ ("Other" \in Outcome(AccountCalls(page)) /\ account_cache = <<>>) =>
              AccountCalls(page') # <<>>]_vars

\* A pass with no refresh that was served the failed history result from
\* the cache, error message included, without calling again, while it
\* fetched the account.
C6_Witness ==
    /\ ~page.clicked
    /\ Outcome(AccountCalls(page)) = {"ok"}
    /\ HistoryCalls(page) = <<>>
    /\ page.history_df = << <<>> >>
    /\ Error("Error fetching portfolio history") \in Range(page.elements)
    /\ HoldsFailure(history_cache)
    /\ history_cache[1].age >= FiveMinutes

\* C7: whenever the KPIs are on the page, the amount shown as Today's P/L
\* is equity - last_equity and the amount shown as Total P/L is equity -
\* baseline cash, to the cent, whatever portfolio_value, cash and the history
\* are; equity 105320.50, last_equity 104800.00 and baseline 100000.00 show
\* "$520.50" and "$5,320.50".
C7_ProfitAndLoss ==
    (AccountPresent(page) /\ ReachedLayout(page)) =>
        LET a == page.data[1][1][1]
        IN  /\ ParseMoney(MetricValue(page, "Today's P/L")) = a.equity - a.last_equity
            /\ ParseMoney(MetricValue(page, "Total P/L")) = a.equity - total_cash
            /\ (a.equity = 10532050 /\ a.last_equity = 10480000) =>
                  MetricValue(page, "Today's P/L") = <<"$", "5", "2", "0", ".", "5", "0">>
            /\ (a.equity = 10532050 /\ total_cash = 10000000) =>
                  MetricValue(page, "Total P/L")
                      = <<"$", "5", ",", "3", "2", "0", ".", "5", "0">>

\* The KPIs of an account whose portfolio value and equity differ, with a
\* loss of 57 cents on the day.
C7_Witness ==
    /\ AccountPresent(page)
    /\ ReachedLayout(page)
    /\ page.data[1][1][1] = LosingAccount
    /\ total_cash = 2500050
    /\ MetricValue(page, "Today's P/L") = <<"$", "-", "0", ".", "5", "7">>

\* The pass fetched the orders, from a book of more than 100.
FetchedFromBigBook ==
    /\ Pass
    /\ Len(Markets[market].book) > 100
    /\ \E i \in 1..Len(page'.calls) :
          page'.calls[i].op = "list_orders" /\ page'.calls[i].outcome = "ok"

RequestedLimit(pg) ==
    (CHOOSE c \in Range(pg.calls) : c.op = "list_orders").args[2]

\* C8 as stated: when the brokerage holds more than 100 closed orders, at
\* most 100 are requested and displayed, and every displayed row has a
\* filled_at no earlier than that of the row below it.
C8_NewestFillFirst ==
    [][FetchedFromBigBook =>
        /\ RequestedLimit(page') <= 100
        /\ HasTable(page', "orders") =>
              LET rows == TableRows(page', "orders")
              IN  /\ Len(rows) <= 100
                  /\ \A i \in 1..(Len(rows) - 1) :
                        ParseTime(rows[i].FilledAt) >= ParseTime(rows[i + 1].FilledAt)]_vars

\* C8, amended: when the brokerage holds more than 100 closed orders, 100
\* are requested with direction 'desc' and at most 100 are displayed, in
\* the order the client returns them, which is newest submission first: a
\* displayed table has one row for each of the 100 most recently submitted
\* orders, in that order.  The rows are not sorted by filled_at.
C8_NewestSubmissionFirst ==
    [][FetchedFromBigBook =>
        /\ RequestedLimit(page') = 100
        /\ Len(page'.data[1][3]) = 100
        /\ \A e \in OfKind(page', {"dataframe"}) : Len(e.rows) <= 100
        /\ HasTable(page', "orders") =>
              LET rows == TableRows(page', "orders")
                  book == Markets[market].book
              IN  /\ Len(rows) = 100
                  /\ \A i \in 1..Len(rows) :
                        /\ rows[i].Qty = book[i].filled_qty
                        /\ ParseTime(rows[i].FilledAt) = book[i].filled_at[1]
                  /\ \A i \in 1..(Len(rows) - 1) :
                        book[i].submitted_at >= book[i + 1].submitted_at]_vars

\* A page with the orders of a book of 102: 100 rows, the second of them
\* filled later than the first.
C8_Witness ==
    /\ HasTable(page, "orders")
    /\ Len(TableRows(page, "orders")) = 100
    /\ ParseTime(TableRows(page, "orders")[2].FilledAt)
          > ParseTime(TableRows(page, "orders")[1].FilledAt)

\* C9 as stated: whenever the layout is drawn for an account, a non-empty
\* positions list gives a table with one row per position, in order, a
\* non-empty orders list (canceled orders included) gives a table with one
\* row per order, in order, and an empty list gives its "no data" message
\* and no table.
C9_OneRowPerEntity ==
    (AccountPresent(page) /\ ReachedLayout(page)) =>
        LET positions == page.data[1][2]
            orders == page.data[1][3]
        IN  /\ positions # <<>> =>
                  /\ HasTable(page, "positions")
                  /\ Len(TableRows(page, "positions")) = Len(positions)
                  /\ \A i \in 1..Len(positions) :
                        /\ TableRows(page, "positions")[i].Symbol = positions[i].symbol
                        /\ TableRows(page, "positions")[i].Qty = positions[i].qty
            /\ positions = <<>> =>
                  /\ ~HasTable(page, "positions")
                  /\ Info("No open positions.") \in Range(page.elements)
            /\ orders # <<>> =>
                  /\ HasTable(page, "orders")
                  /\ Len(TableRows(page, "orders")) = Len(orders)
                  /\ \A i \in 1..Len(orders) :
                        /\ TableRows(page, "orders")[i].Symbol = orders[i].symbol
                        /\ TableRows(page, "orders")[i].Qty = orders[i].filled_qty
            /\ orders = <<>> =>
                  /\ ~HasTable(page, "orders")
                  /\ Info("No recent closed orders found.") \in Range(page.elements)

\* C10: the value get_account_data returns and caches is all or nothing.
\* After a fetch, it is the three answers when all three calls succeeded and
\* (no account, no positions, no orders) when any of them raised an
\* APIError, the account already obtained being dropped; so in the cache and
\* on the page an absent account comes with empty positions and orders, and
\* a present account with the positions and orders answered with it.
C10_AllOrNothing ==
    [][Pass =>
        /\ (AccountCalls(page') # <<>> /\ AccountReturned(page')) =>
              /\ account_cache' # <<>>
              /\ account_cache'[1].value = page'.data[1]
              /\ IF Outcome(AccountCalls(page')) = {"ok"}
                 THEN /\ Len(AccountCalls(page')) = 3
                      /\ page'.data[1] = Triple(Markets[market])
                 ELSE page'.data[1] = NoData
        /\ AccountReturned(page') =>
              \/ page'.data[1] = NoData
              \/ \E k \in 1..Len(Markets) : page'.data[1] = Triple(Markets[k])
        /\ account_cache' # <<>> =>
              \/ account_cache'[1].value = NoData
              \/ \E k \in 1..Len(Markets) : account_cache'[1].value = Triple(Markets[k])]_vars

\* A pass in which the account call succeeded and the positions call
\* failed: nothing of the account is returned or cached.
C10_Witness ==
    /\ Len(page.calls) >= 2
    /\ page.calls[1] = Call("get_account", <<>>, "ok")
    /\ page.calls[2] = Call("list_positions", <<>>, "APIError")
    /\ page.data = <<NoData>>
    /\ account_cache # <<>> /\ account_cache[1].value = NoData

====
